---- MODULE Spec2Model ----
(***************************************************************************)
(* State-machine model of MemFS (src/src/main.rs): the inode table, the    *)
(* per-inode hard-link lists, the content store and the filesystem         *)
(* callbacks that mutate them.                                             *)
(*                                                                         *)
(* A Rust String is represented by its UTF-8 bytes (a sequence of          *)
(* integers 0..255); OsStr / &[u8] / Path arguments are byte sequences     *)
(* that may or may not be valid UTF-8.  An Option<T> is <<>> (None) or     *)
(* <<v>> (Some(v)).                                                        *)
(***************************************************************************)
EXTENDS Integers, Sequences, FiniteSets, TLC

VARIABLES inodes, datas, now, last, steps

vars == <<inodes, datas, now, last, steps>>

-----------------------------------------------------------------------------
(* Bounds of the model *)

\* number of events (callbacks dispatched, seconds elapsed) the model follows
MaxSteps == 4

\* wall-clock second at which main() runs
StartClock == 2

\* names handed to the callbacks: "/", "a" and a byte string that is not UTF-8
NameRoot == <<47>>
NameA == <<97>>
NameBad == <<255>>
\* (parent, name) arguments handed to the callbacks: the root's own entry,
\* "a" under the root and under the first inode created, a bad name
PathInputs == {<<0, NameRoot>>, <<1, NameA>>, <<StartClock, NameA>>, <<1, NameBad>>}
\* inode numbers handed to the callbacks: the root and the numbers that
\* create, mkdir and symlink give out in the first two seconds
InoInputs == {1, StartClock, StartClock + 1}
\* data handed to write: "\u00e9" (two bytes) and its first byte alone
DataInputs == {<<195, 169>>, <<195>>}
\* offsets handed to write
OffsetInputs == {0, 1}
\* symlink targets: "/" and a path that is not UTF-8
TargetInputs == {<<47>>, <<255>>}
\* uid and gid of the requesting process
ReqUid == 1000
ReqGid == 1000
\* setattr requests, one Option per parameter of the callback: nothing
\* supplied, every applied field supplied, only the parameters the handler
\* ignores supplied, and a mix
NoFields ==
    [size |-> <<>>, uid |-> <<>>, gid |-> <<>>, mtime |-> <<>>, flags |-> <<>>,
     mode |-> <<>>, atime |-> <<>>, fh |-> <<>>, crtime |-> <<>>,
     chgtime |-> <<>>, bkuptime |-> <<>>]
AllFields ==
    [NoFields EXCEPT !.size = <<0>>, !.uid = <<0>>, !.gid = <<0>>,
                     !.mtime = <<0>>, !.flags = <<1>>]
IgnoredFields ==
    [NoFields EXCEPT !.mode = <<511>>, !.atime = <<0>>, !.fh = <<0>>,
                     !.crtime = <<0>>, !.chgtime = <<0>>, !.bkuptime = <<0>>]
SomeFields ==
    [NoFields EXCEPT !.size = <<1>>, !.gid = <<0>>, !.mode = <<511>>,
                     !.atime = <<0>>]
SetattrInputs == {NoFields, AllFields, IgnoredFields, SomeFields}

-----------------------------------------------------------------------------
(* Maps (HashMap) *)

Insert(m, k, v) == [x \in (DOMAIN m) \cup {k} |-> IF x = k THEN v ELSE m[x]]

Remove(m, k) == [x \in (DOMAIN m) \ {k} |-> m[x]]

EmptyMap == [x \in {} |-> 0]

UnwrapOr(o, d) == IF Len(o) = 0 THEN d ELSE o[1]

-----------------------------------------------------------------------------
(* UTF-8 validation: String::from_utf8, OsStr::to_str, Path::to_str *)

IsCont(b) == b >= 128 /\ b <= 191

RECURSIVE Utf8From(_, _)
Utf8From(s, i) ==
    IF i > Len(s) THEN TRUE
    ELSE LET b == s[i]
             n == Len(s) - i
         IN  IF b < 128 THEN Utf8From(s, i + 1)
             ELSE IF b >= 194 /\ b <= 223
                  THEN n >= 1 /\ IsCont(s[i + 1]) /\ Utf8From(s, i + 2)
             ELSE IF b >= 224 /\ b <= 239
                  THEN /\ n >= 2
                       /\ IsCont(s[i + 1])
                       /\ (b = 224 => s[i + 1] >= 160)
                       /\ (b = 237 => s[i + 1] <= 159)
                       /\ IsCont(s[i + 2])
                       /\ Utf8From(s, i + 3)
             ELSE IF b >= 240 /\ b <= 244
                  THEN /\ n >= 3
                       /\ IsCont(s[i + 1])
                       /\ (b = 240 => s[i + 1] >= 144)
                       /\ (b = 244 => s[i + 1] <= 143)
                       /\ IsCont(s[i + 2])
                       /\ IsCont(s[i + 3])
                       /\ Utf8From(s, i + 4)
             ELSE FALSE

IsUtf8(s) == Utf8From(s, 1)

-----------------------------------------------------------------------------
(* Files *)

Directory == "Directory"
RegularFile == "RegularFile"
Symlink == "Symlink"

HardLink(parent, name) == [parent_ino |-> parent, name |-> name]

new_file_attr(ino, size, ftype, uid, gid, t) ==
    [ino |-> ino, size |-> size, kind |-> ftype,
     perm |-> IF ftype = Directory THEN 493 ELSE 420,
     nlink |-> IF ftype = Directory THEN 2 ELSE 1,
     uid |-> uid, gid |-> gid, rdev |-> 0, blocks |-> 0,
     atime |-> t, mtime |-> t, ctime |-> t, crtime |-> t, flags |-> 0]

\* a File whose generation starts at 1
NewFileCounted(ino, ftype, parent, name, t) ==
    [hard_links |-> <<HardLink(parent, name)>>,
     attr |-> new_file_attr(ino, 0, ftype, ReqUid, ReqGid, t),
     generation |-> 1]

\* the File that create, mkdir and symlink insert; the handler reads the
\* clock once for the inode number and once more in new_file_attr, and the
\* model takes both reads in the same second
NewFile(ino, ftype, parent, name, t) ==
    [hard_links |-> <<HardLink(parent, name)>>,
     attr |-> new_file_attr(ino, 0, ftype, ReqUid, ReqGid, t),
     generation |-> 0]

\* h.parent_ino == parent && h.name == name
HasLink(f, parent, name) ==
    \E k \in 1..Len(f.hard_links) :
        f.hard_links[k].parent_ino = parent /\ f.hard_links[k].name = name

Panicked == last.reply.tag = "panic"

\* the session dispatches one more request
Dispatch ==
    /\ ~Panicked
    /\ steps < MaxSteps
    /\ steps' = steps + 1

Reply(tag, val) == [tag |-> tag, val |-> val]

Called(op, reply) == [op |-> op, reply |-> reply]

-----------------------------------------------------------------------------
(* main *)

Init ==
    /\ now = StartClock
    /\ inodes = Insert(EmptyMap, 1,
                       [hard_links |-> <<HardLink(0, NameRoot)>>,
                        attr |-> new_file_attr(1, 0, Directory, 501, 20, StartClock),
                        generation |-> 0])
    /\ datas = EmptyMap
    /\ last = Called("mount", Reply("ok", 0))
    /\ steps = 0

\* the wall clock advances by one second
Tick ==
    /\ ~Panicked
    /\ steps < MaxSteps
    /\ steps' = steps + 1
    /\ now' = now + 1
    /\ UNCHANGED <<inodes, datas, last>>

-----------------------------------------------------------------------------
(* create, mkdir, symlink *)

Create(parent, name) ==
    /\ Dispatch
    /\ UNCHANGED <<now, datas>>
    /\ IF IsUtf8(name)
       THEN /\ inodes' = Insert(inodes, now, NewFile(now, RegularFile, parent, name, now))
            /\ last' = Called("create", Reply("created", now))
       ELSE /\ inodes' = inodes
            /\ last' = Called("create", Reply("panic", 0))

Mkdir(parent, name) ==
    /\ Dispatch
    /\ UNCHANGED <<now, datas>>
    /\ IF IsUtf8(name)
       THEN /\ inodes' = Insert(inodes, now, NewFile(now, Directory, parent, name, now))
            /\ last' = Called("mkdir", Reply("entry", now))
       ELSE /\ inodes' = inodes
            /\ last' = Called("mkdir", Reply("panic", 0))

\* the inode is inserted before the target path is converted
SymlinkOp(parent, name, link) ==
    /\ Dispatch
    /\ UNCHANGED now
    /\ IF ~IsUtf8(name)
       THEN /\ UNCHANGED <<inodes, datas>>
            /\ last' = Called("symlink", Reply("panic", 0))
       ELSE /\ inodes' = Insert(inodes, now, NewFile(now, Symlink, parent, name, now))
            /\ IF IsUtf8(link)
               THEN /\ datas' = Insert(datas, now, link)
                    /\ last' = Called("symlink", Reply("entry", now))
               ELSE /\ datas' = datas
                    /\ last' = Called("symlink", Reply("panic", 0))

-----------------------------------------------------------------------------
(* setattr *)

\* an update that also applies the mode parameter to attr.perm
ApplyFieldsAndMode(f, a) ==
    [f EXCEPT !.attr.size = UnwrapOr(a.size, @),
              !.attr.uid = UnwrapOr(a.uid, @),
              !.attr.gid = UnwrapOr(a.gid, @),
              !.attr.mtime = UnwrapOr(a.mtime, @),
              !.attr.flags = UnwrapOr(a.flags, @),
              !.attr.perm = UnwrapOr(a.mode, @),
              !.generation = @ + 1]

ApplyFields(f, a) ==
    [f EXCEPT !.attr.size = UnwrapOr(a.size, @),
              !.attr.uid = UnwrapOr(a.uid, @),
              !.attr.gid = UnwrapOr(a.gid, @),
              !.attr.mtime = UnwrapOr(a.mtime, @),
              !.attr.flags = UnwrapOr(a.flags, @),
              !.generation = @ + 1]

Setattr(ino, a) ==
    /\ Dispatch
    /\ UNCHANGED <<now, datas>>
    /\ IF ino \in DOMAIN inodes
       THEN /\ inodes' = [inodes EXCEPT ![ino] = ApplyFields(@, a)]
            /\ last' = Called("setattr", Reply("attr", ino))
       ELSE /\ inodes' = inodes
            /\ last' = Called("setattr", Reply("EACCES", 0))

-----------------------------------------------------------------------------
(* write, read *)

\* a store that appends to the content already there
StoreAppend(ds, ino, x) ==
    Insert(ds, ino, IF ino \in DOMAIN ds THEN ds[ino] \o x ELSE x)

\* self.datas.insert(ino, x)
StoreContent(ds, ino, x) == Insert(ds, ino, x)

\* f.attr.size = length as u64; f.generation += 1
Written(f, length) == [f EXCEPT !.attr.size = length, !.generation = @ + 1]

Write(ino, offset, data) ==
    /\ Dispatch
    /\ UNCHANGED now
    /\ IF ~IsUtf8(data)
       THEN /\ UNCHANGED <<inodes, datas>>
            /\ last' = Called("write", Reply("panic", 0))
       ELSE /\ datas' = StoreContent(datas, ino, data)
            /\ inodes' = IF ino \in DOMAIN inodes
                         THEN [inodes EXCEPT ![ino] = Written(@, Len(data))]
                         ELSE inodes
            /\ last' = Called("write", Reply("written", Len(data)))

ReadReply(is, ds, ino) ==
    IF ino \in DOMAIN is /\ is[ino].attr.kind = RegularFile
    THEN IF ino \in DOMAIN ds THEN Reply("data", ds[ino]) ELSE Reply("data", <<>>)
    ELSE Reply("EACCES", 0)

Read(ino) ==
    /\ Dispatch
    /\ UNCHANGED <<inodes, datas, now>>
    /\ last' = Called("read", ReadReply(inodes, datas, ino))

-----------------------------------------------------------------------------
(* unlink, rmdir *)

\* f.hard_links.iter().position(|x| x.name == name).unwrap()
NameIndex(hl, name) ==
    CHOOSE k \in 1..Len(hl) :
        /\ hl[k].name = name
        /\ \A j \in 1..(k - 1) : hl[j].name # name

\* Vec::remove(index)
RemoveAt(s, k) == [j \in 1..(Len(s) - 1) |-> IF j < k THEN s[j] ELSE s[j + 1]]

\* the iteration without its f.attr.nlink -= 1
UnlinkedKeepCount(f, name) ==
    [f EXCEPT !.hard_links = RemoveAt(@, NameIndex(@, name))]

\* one iteration of the loop on a File that holds (parent, name)
Unlinked(f, name) ==
    [f EXCEPT !.hard_links = RemoveAt(@, NameIndex(@, name)),
              !.attr.nlink = @ - 1]

\* the Files the loop changes
Matching(is, parent, name) == {i \in DOMAIN is : HasLink(is[i], parent, name)}

\* the values delete_ino can hold after the loop: 0, or the last File in
\* HashMap iteration order whose hard_links became empty
DeleteInos(is, parent, name) ==
    LET emptied == {i \in Matching(is, parent, name) :
                       Len(Unlinked(is[i], name).hard_links) = 0}
    IN  IF emptied = {} THEN {0} ELSE emptied

UnlinkBody(op, parent, name) ==
    /\ Dispatch
    /\ UNCHANGED now
    /\ IF ~IsUtf8(name)
       THEN /\ UNCHANGED <<inodes, datas>>
            /\ last' = Called(op, Reply("panic", 0))
       ELSE \E delete_ino \in DeleteInos(inodes, parent, name) :
              LET m == Matching(inodes, parent, name)
                  looped == [i \in DOMAIN inodes |->
                                IF i \in m THEN Unlinked(inodes[i], name)
                                ELSE inodes[i]]
              IN  /\ inodes' = IF delete_ino # 0 THEN Remove(looped, delete_ino)
                               ELSE looped
                  /\ datas' = IF delete_ino # 0 THEN Remove(datas, delete_ino)
                              ELSE datas
                  /\ last' = Called(op, IF m # {} THEN Reply("ok", 0)
                                    ELSE Reply("EACCES", 0))

Unlink(parent, name) == UnlinkBody("unlink", parent, name)

Rmdir(parent, name) == UnlinkBody("rmdir", parent, name)

-----------------------------------------------------------------------------
(* link *)

\* f.attr.nlink += 1; f.hard_links.push(..)
Linked(f, newparent, name) ==
    [f EXCEPT !.attr.nlink = @ + 1,
              !.hard_links = Append(@, HardLink(newparent, name))]

Link(ino, newparent, newname) ==
    /\ Dispatch
    /\ UNCHANGED <<now, datas>>
    /\ IF ~IsUtf8(newname)
       THEN /\ inodes' = inodes
            /\ last' = Called("link", Reply("panic", 0))
       ELSE IF ino \notin DOMAIN inodes
       THEN /\ inodes' = inodes
            /\ last' = Called("link", Reply("ENOENT", 0))
       ELSE IF HasLink(inodes[ino], newparent, newname)
       THEN /\ inodes' = inodes
            /\ last' = Called("link", Reply("EEXIST", 0))
       ELSE /\ inodes' = [inodes EXCEPT ![ino] = Linked(@, newparent, newname)]
            /\ last' = Called("link", Reply("entry", ino))

-----------------------------------------------------------------------------
(* getattr, lookup, readlink, readdir *)

GetattrReply(is, ino) ==
    IF ino \in DOMAIN is THEN Reply("attr", ino) ELSE Reply("ENOENT", 0)

Getattr(ino) ==
    /\ Dispatch
    /\ UNCHANGED <<inodes, datas, now>>
    /\ last' = Called("getattr", GetattrReply(inodes, ino))

\* the loop replies with the first File in HashMap iteration order that
\* holds (parent, name)
Lookup(parent, name) ==
    /\ Dispatch
    /\ UNCHANGED <<inodes, datas, now>>
    /\ IF ~IsUtf8(name)
       THEN last' = Called("lookup", Reply("panic", 0))
       ELSE IF Matching(inodes, parent, name) = {}
       THEN last' = Called("lookup", Reply("ENOENT", 0))
       ELSE \E i \in Matching(inodes, parent, name) :
               last' = Called("lookup", Reply("entry", i))

ReadlinkReply(is, ds, ino) ==
    IF ino \in DOMAIN is /\ is[ino].attr.kind = Symlink
    THEN IF ino \in DOMAIN ds THEN Reply("data", ds[ino]) ELSE Reply("EACCES", 0)
    ELSE Reply("EACCES", 0)

Readlink(ino) ==
    /\ Dispatch
    /\ UNCHANGED <<inodes, datas, now>>
    /\ last' = Called("readlink", ReadlinkReply(inodes, datas, ino))

DirEntry(ino, offset, kind, name) ==
    [ino |-> ino, offset |-> offset, kind |-> kind, name |-> name]

\* every hard link of a File, whatever its parent
ListedAll(f, ino) == f.hard_links

\* the hard links of a File that the inner loop reports: h.parent_ino == ino
Listed(f, ino) ==
    LET Under(h) == h.parent_ino = ino
    IN  SelectSeq(f.hard_links, Under)

\* the orders in which HashMap iteration can visit the Files of a set
Orders(S) ==
    {o \in [1..Cardinality(S) -> S] : \A j, k \in 1..Cardinality(S) : o[j] = o[k] => j = k}

\* the (File, name) pairs reported when the Files are visited in order o
RECURSIVE Visit(_, _, _, _)
Visit(is, o, k, ino) ==
    IF k > Len(o) THEN <<>>
    ELSE LET f == is[o[k]]
             hl == Listed(f, ino)
         IN  [j \in 1..Len(hl) |-> <<f.attr.ino, f.attr.kind, hl[j].name>>]
             \o Visit(is, o, k + 1, ino)

\* the buffer of reply.add calls: ".", "..", then the entries at offsets
\* reply_add_offset = 2, 3, ...
Listing(found) ==
    <<DirEntry(1, 0, Directory, <<46>>), DirEntry(2, 1, Directory, <<46, 46>>)>>
    \o [j \in 1..Len(found) |->
           DirEntry(found[j][1], j + 1, found[j][2], found[j][3])]

\* the listings readdir can reply with; the Files without an entry under
\* ino add nothing, whatever their place in the iteration
ReaddirReplies(is, ino) ==
    LET S == {i \in DOMAIN is : Len(Listed(is[i], ino)) > 0}
    IN  {Listing(Visit(is, o, 1, ino)) : o \in Orders(S)}

Readdir(ino, offset) ==
    /\ Dispatch
    /\ UNCHANGED <<inodes, datas, now>>
    /\ IF offset > 0
       THEN last' = Called("readdir", Reply("dir", <<>>))
       ELSE \E l \in ReaddirReplies(inodes, ino) :
               last' = Called("readdir", Reply("dir", l))

-----------------------------------------------------------------------------

Next ==
    \/ Tick
    \/ \E pn \in PathInputs : Create(pn[1], pn[2])
    \/ \E pn \in PathInputs : Mkdir(pn[1], pn[2])
    \/ \E pn \in PathInputs, link \in TargetInputs : SymlinkOp(pn[1], pn[2], link)
    \/ \E ino \in InoInputs, a \in SetattrInputs : Setattr(ino, a)
    \/ \E ino \in InoInputs, offset \in OffsetInputs, data \in DataInputs :
          Write(ino, offset, data)
    \/ \E ino \in InoInputs : Read(ino)
    \/ \E pn \in PathInputs : Unlink(pn[1], pn[2])
    \/ \E pn \in PathInputs : Rmdir(pn[1], pn[2])
    \/ \E ino \in InoInputs, pn \in PathInputs : Link(ino, pn[1], pn[2])
    \/ \E ino \in InoInputs : Getattr(ino)
    \/ \E pn \in PathInputs : Lookup(pn[1], pn[2])
    \/ \E ino \in InoInputs : Readlink(ino)
    \/ \E ino \in InoInputs, offset \in OffsetInputs : Readdir(ino, offset)

Spec == Init /\ [][Next]_vars

-----------------------------------------------------------------------------
(* Properties *)

\* the link-entry set of a File
LinkSet(f) == {<<f.hard_links[k].parent_ino, f.hard_links[k].name>> :
                  k \in 1..Len(f.hard_links)}

\* the Files holding the link entry (parent, name)
Holders(is, parent, name) == {i \in DOMAIN is : <<parent, name>> \in LinkSet(is[i])}

\* C1 as stated: every inode in the table, directories and the root
\* included, has nlink equal to the number of its link entries.
C1_NlinkIsLinkCount ==
    \A i \in DOMAIN inodes : inodes[i].attr.nlink = Len(inodes[i].hard_links)

\* C1 amended: a regular file or symlink has nlink equal to the number of
\* its link entries; a directory (the root included) has one more.
C1_NlinkTracksLinks ==
    \A i \in DOMAIN inodes :
        inodes[i].attr.nlink =
            Len(inodes[i].hard_links)
            + (IF inodes[i].attr.kind = Directory THEN 1 ELSE 0)

\* an unlink has just succeeded, a regular file that was a hard-link target
\* is left with one entry, and a directory holds a second entry from link
C1_Witness ==
    /\ last.op = "unlink"
    /\ last.reply.tag = "ok"
    /\ \E i \in DOMAIN inodes :
          /\ inodes[i].attr.kind = RegularFile
          /\ Len(inodes[i].hard_links) = 1
    /\ \E d \in DOMAIN inodes :
          /\ inodes[d].attr.kind = Directory
          /\ Len(inodes[d].hard_links) = 2

\* the root still has exactly the entry main() gave it
RootIntact ==
    /\ 1 \in DOMAIN inodes
    /\ inodes[1].hard_links = <<HardLink(0, NameRoot)>>

\* C2: every inode in the table other than inode 1 has a non-empty
\* link-entry set, in particular after an unlink or rmdir that removed a
\* (parent, name) pair held by several inodes (stated for the states in
\* which the root's own entry was never touched).
C2_PresentIffLinked ==
    RootIntact => \A i \in DOMAIN inodes : i # 1 => Len(inodes[i].hard_links) > 0

\* C3: each (parent, name) pair occurs in at most one link entry of the
\* whole table, across inodes and within one inode (stated for the inodes
\* other than the root).
C3_PairsUnique ==
    \A i, j \in (DOMAIN inodes) \ {1} :
        \A k \in 1..Len(inodes[i].hard_links), l \in 1..Len(inodes[j].hard_links) :
            (/\ inodes[i].hard_links[k].parent_ino = inodes[j].hard_links[l].parent_ino
             /\ inodes[i].hard_links[k].name = inodes[j].hard_links[l].name)
            => (i = j /\ k = l)

\* C6: inode 1 is in the table and is a directory in every reachable state.
C6_RootPersists ==
    /\ 1 \in DOMAIN inodes
    /\ inodes[1].attr.kind = Directory

\* C4: hard-link lifecycle.  When unlink is called on a (parent, name) pair
\* that one regular file or symlink, and no other inode, holds among N
\* distinct link entries, it succeeds; for N >= 2 the inode stays in the
\* table with its content unchanged and with exactly the other entries
\* (so that N-1 such calls leave exactly the remaining pair); for N = 1 the
\* inode and its content are removed.
C4_HardLinkLifecycle ==
    [][\A pn \in PathInputs :
          Unlink(pn[1], pn[2]) =>
             \A i \in DOMAIN inodes :
                (/\ inodes[i].attr.kind # Directory
                 /\ Holders(inodes, pn[1], pn[2]) = {i}
                 /\ Cardinality(LinkSet(inodes[i])) = Len(inodes[i].hard_links))
                => /\ last'.reply.tag = "ok"
                   /\ IF Len(inodes[i].hard_links) >= 2
                      THEN /\ i \in DOMAIN inodes'
                           /\ LinkSet(inodes'[i]) = LinkSet(inodes[i]) \ {pn}
                           /\ (i \in DOMAIN datas') = (i \in DOMAIN datas)
                           /\ i \in DOMAIN datas => datas'[i] = datas[i]
                      ELSE /\ i \notin DOMAIN inodes'
                           /\ i \notin DOMAIN datas']_vars

\* what C5 says of one write step
RoundTrip(ino, data) ==
    /\ last'.reply.tag = "written"
    /\ last'.reply.val = Len(data)
    /\ inodes'[ino].attr.size = Len(data)
    /\ ReadReply(inodes', datas', ino).tag = "data"
    /\ ReadReply(inodes', datas', ino).val = data

\* C5 as stated: write(ino, offset, B) on a regular file in the table, for
\* every byte sequence B and offset, reports |B| bytes written, sets the
\* size to |B|, and a read(ino) that follows immediately returns exactly B.
C5_WriteReadRoundTrip ==
    [][\A ino \in InoInputs, offset \in OffsetInputs, data \in DataInputs :
          (/\ ino \in DOMAIN inodes
           /\ inodes[ino].attr.kind = RegularFile
           /\ Write(ino, offset, data))
          => RoundTrip(ino, data)]_vars

\* C5 amended: the same for every byte sequence B that is valid UTF-8,
\* whatever the offset and the content stored before.
C5_WriteReadRoundTripUtf8 ==
    [][\A ino \in InoInputs, offset \in OffsetInputs, data \in DataInputs :
          (/\ ino \in DOMAIN inodes
           /\ inodes[ino].attr.kind = RegularFile
           /\ IsUtf8(data)
           /\ Write(ino, offset, data))
          => RoundTrip(ino, data)]_vars

\* a read of a regular file has just returned the two bytes that a write
\* stored for it
C5_Witness ==
    /\ last.op = "read"
    /\ last.reply.tag = "data"
    /\ last.reply.val = <<195, 169>>
    /\ \E ino \in DOMAIN inodes :
          /\ inodes[ino].attr.kind = RegularFile
          /\ inodes[ino].attr.size = 2
          /\ ino \in DOMAIN datas
          /\ datas[ino] = <<195, 169>>

\* C7: link(ino, newparent, newname) replies ENOENT when ino is not in the
\* table and EEXIST when (newparent, newname) is a link entry of ino or of
\* any other inode, changing nothing in both cases; otherwise it appends
\* exactly that entry to ino and adds one to its nlink (stated for names
\* that are valid UTF-8 and other than the root's own entry, and for ino
\* not a directory).
C7_LinkReplies ==
    [][\A ino \in InoInputs, pn \in PathInputs :
          (/\ IsUtf8(pn[2])
           /\ pn # <<0, NameRoot>>
           /\ ino \in DOMAIN inodes => inodes[ino].attr.kind # Directory
           /\ Link(ino, pn[1], pn[2])) =>
             IF ino \notin DOMAIN inodes
             THEN /\ last'.reply.tag = "ENOENT"
                  /\ inodes' = inodes
                  /\ datas' = datas
             ELSE IF Holders(inodes, pn[1], pn[2]) # {}
             THEN /\ last'.reply.tag = "EEXIST"
                  /\ inodes' = inodes
                  /\ datas' = datas
             ELSE /\ last'.reply.tag = "entry"
                  /\ datas' = datas
                  /\ inodes' = [inodes EXCEPT
                                   ![ino].hard_links = Append(@, HardLink(pn[1], pn[2])),
                                   ![ino].attr.nlink = @ + 1]]_vars

\* a hard_links vector without its (parent, name) entries
Without(hl, parent, name) ==
    LET Keep(h) == ~(h.parent_ino = parent /\ h.name = name)
    IN  SelectSeq(hl, Keep)

\* C8: a successful unlink or rmdir of (parent, name) removes exactly that
\* entry from each inode holding it and subtracts one from its nlink; the
\* other entries of that inode, and the entries and nlink of every inode
\* that does not hold the pair, are unchanged.
C8_UnlinkFrame ==
    [][\A pn \in PathInputs :
          (/\ Unlink(pn[1], pn[2]) \/ Rmdir(pn[1], pn[2])
           /\ last'.reply.tag = "ok")
          => \A i \in DOMAIN inodes :
                IF i \in Holders(inodes, pn[1], pn[2])
                THEN i \in DOMAIN inodes' =>
                        /\ inodes'[i].hard_links =
                              Without(inodes[i].hard_links, pn[1], pn[2])
                        /\ inodes'[i].attr.nlink = inodes[i].attr.nlink - 1
                ELSE /\ i \in DOMAIN inodes'
                     /\ inodes'[i].hard_links = inodes[i].hard_links
                     /\ inodes'[i].attr.nlink = inodes[i].attr.nlink]_vars

\* C9: unlink and rmdir reply EACCES exactly when no inode in the table
\* holds the link entry (parent, name), and then leave the inode table and
\* the content store unchanged; in every other case they reply ok.
C9_UnlinkReplies ==
    [][\A pn \in PathInputs :
          (Unlink(pn[1], pn[2]) \/ Rmdir(pn[1], pn[2]))
          => IF Holders(inodes, pn[1], pn[2]) = {}
             THEN /\ last'.reply.tag = "EACCES"
                  /\ inodes' = inodes
                  /\ datas' = datas
             ELSE last'.reply.tag = "ok"]_vars

\* C10: a successful write or setattr on an inode in the table leaves its
\* generation strictly greater, and no step makes the generation of an
\* inode number that stays in the table smaller.
C10_GenerationMonotone ==
    [][/\ \A i \in (DOMAIN inodes) \cap (DOMAIN inodes') :
             inodes'[i].generation >= inodes[i].generation
       /\ \A ino \in (InoInputs \cap DOMAIN inodes) :
             /\ \A a \in SetattrInputs :
                   Setattr(ino, a) =>
                      inodes'[ino].generation > inodes[ino].generation
             /\ \A offset \in OffsetInputs, data \in DataInputs :
                   (Write(ino, offset, data) /\ last'.reply.tag = "written") =>
                      inodes'[ino].generation > inodes[ino].generation]_vars

\* C11: every change of an inode's link count increments its generation: a
\* successful link(ino, ..) leaves ino's generation strictly greater, and a
\* successful unlink or rmdir leaves strictly greater the generation of
\* every inode that held the pair and stays in the table.
C11_LinkCountBumpsGeneration ==
    [][\A pn \in PathInputs :
          /\ \A ino \in InoInputs :
                (Link(ino, pn[1], pn[2]) /\ last'.reply.tag = "entry")
                => inodes'[ino].generation > inodes[ino].generation
          /\ (/\ Unlink(pn[1], pn[2]) \/ Rmdir(pn[1], pn[2])
              /\ last'.reply.tag = "ok")
             => \A i \in Holders(inodes, pn[1], pn[2]) \cap DOMAIN inodes' :
                   inodes'[i].generation > inodes[i].generation]_vars

\* C12: the content store holds entries only for inodes that are in the
\* table with kind regular file or symlink.
C12_ContentOnlyForFiles ==
    \A i \in DOMAIN datas :
       /\ i \in DOMAIN inodes
       /\ inodes[i].attr.kind \in {RegularFile, Symlink}

\* the callback of this step is create, mkdir or symlink and it replied with
\* a new inode number
Created ==
    /\ \E pn \in PathInputs :
          \/ Create(pn[1], pn[2])
          \/ Mkdir(pn[1], pn[2])
          \/ \E link \in TargetInputs : SymlinkOp(pn[1], pn[2], link)
    /\ last'.reply.tag \in {"created", "entry"}

\* C13: the inode number that create, mkdir and symlink reply with is not
\* 0, not 1 and not an inode number already in the table, so no creation
\* replaces an existing inode.
C13_FreshInode ==
    [][Created => /\ last'.reply.val \notin {0, 1}
                  /\ last'.reply.val \notin DOMAIN inodes]_vars

\* C14: right after create(parent, name) replies X, inode X is a regular
\* file of size 0 with the single link entry (parent, name), and read(X)
\* would reply with the empty byte sequence.
C14_CreateIsEmpty ==
    [][\A pn \in PathInputs :
          (Create(pn[1], pn[2]) /\ last'.reply.tag = "created")
          => LET X == last'.reply.val
             IN  /\ X \in DOMAIN inodes'
                 /\ inodes'[X].attr.kind = RegularFile
                 /\ inodes'[X].attr.size = 0
                 /\ inodes'[X].hard_links = <<HardLink(pn[1], pn[2])>>
                 /\ ReadReply(inodes', datas', X) = Reply("data", <<>>)]_vars

\* a write of data to the file that the preceding callback, a create, made
FirstWrite(ino, data) ==
    /\ last.op = "create"
    /\ last.reply = Reply("created", ino)
    /\ \E offset \in OffsetInputs : Write(ino, offset, data)
    /\ last'.reply.tag = "written"

\* C15 as stated: after create and one write of B to the new file, its
\* size is the length of B and its generation is 2.
C15_FirstWriteGenerationTwo ==
    [][\A ino \in InoInputs, data \in DataInputs :
          FirstWrite(ino, data)
          => /\ inodes'[ino].attr.size = Len(data)
             /\ inodes'[ino].generation = 2]_vars

\* C15 amended: after create and one write of B to the new file, its size
\* is the length of B and its generation is 1.
C15_FirstWriteGenerationOne ==
    [][\A ino \in InoInputs, data \in DataInputs :
          FirstWrite(ino, data)
          => /\ inodes'[ino].attr.size = Len(data)
             /\ inodes'[ino].generation = 1]_vars

\* a regular file with one link entry that a write has just filled with
\* the two bytes of "\u00e9", at generation 1
C15_Witness ==
    /\ last.op = "write"
    /\ last.reply = Reply("written", 2)
    /\ \E i \in DOMAIN inodes :
          /\ inodes[i].attr.kind = RegularFile
          /\ Len(inodes[i].hard_links) = 1
          /\ inodes[i].attr.size = 2
          /\ inodes[i].generation = 1
          /\ i \in DOMAIN datas
          /\ datas[i] = <<195, 169>>

\* C20: the size attribute of every regular file in the table is the length
\* of its stored content, 0 when it has none.
C20_SizeIsContentLength ==
    \A i \in DOMAIN inodes :
       inodes[i].attr.kind = RegularFile
       => inodes[i].attr.size = (IF i \in DOMAIN datas THEN Len(datas[i]) ELSE 0)

\* how many link entries (parent, name) the File f holds
LinkCount(f, parent, name) ==
    Cardinality({j \in 1..Len(f.hard_links) : f.hard_links[j] = HardLink(parent, name)})

\* how many entries after ".." of the listing l name inode i as name
ListedCount(l, i, name) ==
    Cardinality({k \in 3..Len(l) : l[k].ino = i /\ l[k].name = name})

\* C16: readdir(ino, 0) replies with "." at offset 0, ".." at offset 1, then
\* one entry (inode, name, kind of that inode) for each link entry in the
\* table whose parent is ino, at the offsets 2, 3, ...; it changes neither
\* the inode table nor the content store.
C16_ReaddirListsChildren ==
    [][\A ino \in InoInputs :
          (last'.op = "readdir" /\ last'.reply.val # <<>> /\ Readdir(ino, 0))
          => LET l == last'.reply.val
                 names == {l[k].name : k \in 3..Len(l)} \cup
                          UNION {{h[2] : h \in LinkSet(inodes[i])} : i \in DOMAIN inodes}
             IN  /\ Len(l) >= 2
                 /\ l[1].name = <<46>> /\ l[1].offset = 0
                 /\ l[2].name = <<46, 46>> /\ l[2].offset = 1
                 /\ \A k \in 3..Len(l) :
                       /\ l[k].offset = k - 1
                       /\ l[k].ino \in DOMAIN inodes
                       /\ l[k].kind = inodes[l[k].ino].attr.kind
                 /\ \A i \in DOMAIN inodes, name \in names :
                       ListedCount(l, i, name) = LinkCount(inodes[i], ino, name)
                 /\ inodes' = inodes
                 /\ datas' = datas]_vars

\* a listing of two entries of two different inodes after "." and ".."
C16_Witness ==
    /\ last.op = "readdir"
    /\ Len(last.reply.val) = 4
    /\ last.reply.val[3].ino # last.reply.val[4].ino
    /\ last.reply.val[4].offset = 3

\* the inodes other than D that hold a link entry whose parent is D
Children(is, D) ==
    {c \in DOMAIN is \ {D} : \E h \in LinkSet(is[c]) : h[1] = D}

\* C17: rmdir(parent, name) of a directory D that has children replies ok,
\* removes D from the table when (parent, name) was D's only link entry,
\* and leaves every child inode, its link entries and its content as they
\* were.
C17_RmdirKeepsChildren ==
    [][\A pn \in PathInputs :
          Rmdir(pn[1], pn[2])
          => \A D \in Holders(inodes, pn[1], pn[2]) :
                (inodes[D].attr.kind = Directory /\ Children(inodes, D) # {})
                => /\ last'.reply.tag = "ok"
                   /\ inodes[D].hard_links = <<HardLink(pn[1], pn[2])>>
                      => D \notin DOMAIN inodes'
                   /\ \A c \in Children(inodes, D) :
                         /\ c \in DOMAIN inodes'
                         /\ inodes'[c] = inodes[c]
                         /\ (c \in DOMAIN datas') = (c \in DOMAIN datas)
                         /\ c \in DOMAIN datas => datas'[c] = datas[c]]_vars

\* the value of an attribute after setattr: the supplied one, else the old
Supplied(o, old) == IF o = <<>> THEN old ELSE o[1]

\* what setattr(ino, ..) replies with
SetattrReply(is, ino) ==
    IF ino \in DOMAIN is THEN Reply("attr", ino) ELSE Reply("EACCES", 0)

\* C18: setattr on an inode in the table replies with its attributes and
\* changes only size, uid, gid, mtime and flags, each only when supplied,
\* and adds one to generation; every other attribute, the link entries,
\* the content store and every other inode are unchanged, whatever mode,
\* atime, crtime, chgtime, bkuptime or fh is supplied. On an inode not in
\* the table it replies EACCES and changes nothing.
C18_SetattrFrame ==
    [][\A ino \in InoInputs :
          (last' = Called("setattr", SetattrReply(inodes, ino)))
          => \A a \in SetattrInputs :
                Setattr(ino, a)
                => /\ datas' = datas
                   /\ IF ino \in DOMAIN inodes
                      THEN /\ last'.reply.tag = "attr"
                           /\ DOMAIN inodes' = DOMAIN inodes
                           /\ \A i \in DOMAIN inodes \ {ino} : inodes'[i] = inodes[i]
                           /\ inodes'[ino].hard_links = inodes[ino].hard_links
                           /\ inodes'[ino].generation = inodes[ino].generation + 1
                           /\ inodes'[ino].attr =
                                 [inodes[ino].attr EXCEPT
                                     !.size = Supplied(a.size, @),
                                     !.uid = Supplied(a.uid, @),
                                     !.gid = Supplied(a.gid, @),
                                     !.mtime = Supplied(a.mtime, @),
                                     !.flags = Supplied(a.flags, @)]
                      ELSE /\ last'.reply.tag = "EACCES"
                           /\ inodes' = inodes]_vars

\* a setattr that supplied size, gid, mode and atime has just changed the
\* size and gid of a file and left its uid, perm and atime alone
C18_Witness ==
    /\ last.op = "setattr"
    /\ last.reply.tag = "attr"
    /\ last.reply.val \in DOMAIN inodes
    /\ LET f == inodes[last.reply.val]
       IN  /\ f.attr.kind = RegularFile
           /\ f.attr.size = 1
           /\ f.attr.gid = 0
           /\ f.attr.uid = ReqUid
           /\ f.attr.perm = 420
           /\ f.attr.atime = f.attr.mtime
           /\ f.generation = 1

\* the step is a symlink call that replied with inode number ino
MadeSymlink(ino) ==
    /\ \E pn \in PathInputs, link \in TargetInputs : SymlinkOp(pn[1], pn[2], link)
    /\ last'.reply = Reply("entry", ino)

\* C19: readlink(ino) replies with the target given to the symlink call
\* that made ino when ino is a symlink in the table, so that no later call
\* changes the reply while ino stays a symlink, and EACCES when ino is
\* absent or of another kind; read(ino) replies EACCES when ino is absent or
\* not a regular file, and with the empty byte sequence for a file just
\* created; neither changes the inode table or the content store.
C19_ReadlinkAndRead ==
    [][/\ \A pn \in PathInputs, link \in TargetInputs :
             (SymlinkOp(pn[1], pn[2], link) /\ last'.reply.tag = "entry")
             => ReadlinkReply(inodes', datas', last'.reply.val) = Reply("data", link)
       /\ \A ino \in InoInputs :
             /\ (/\ ino \in DOMAIN inodes /\ inodes[ino].attr.kind = Symlink
                 /\ ino \in DOMAIN inodes' /\ inodes'[ino].attr.kind = Symlink
                 /\ ~MadeSymlink(ino)
                 /\ ~Panicked')
                => ReadlinkReply(inodes', datas', ino) = ReadlinkReply(inodes, datas, ino)
             /\ Readlink(ino)
                => /\ inodes' = inodes /\ datas' = datas
                   /\ (last'.reply.tag = "EACCES")
                      = ~(ino \in DOMAIN inodes /\ inodes[ino].attr.kind = Symlink)
             /\ Read(ino)
                => /\ inodes' = inodes /\ datas' = datas
                   /\ (last'.reply.tag = "EACCES")
                      = ~(ino \in DOMAIN inodes /\ inodes[ino].attr.kind = RegularFile)
                   /\ (last.op = "create" /\ last.reply = Reply("created", ino))
                      => last'.reply = Reply("data", <<>>)]_vars

====
